---- MODULE Spec2Model ----
(***************************************************************************)
(* The CDP socket server: CDPSocketServer (a tree of registry nodes made   *)
(* by of()) and CDPSocket (one bridge per attach and namespace) talking    *)
(* to one CDP client.  Every await / then of the source is a step of its   *)
(* own; what runs synchronously between two suspension points is one step. *)
(***************************************************************************)
EXTENDS Naturals, Sequences, FiniteSets, Bags, TLC

\* ------------------------------------------------------------------ bounds
MaxServerOps == 3    \* calls the user makes on the registry
MaxSocketOps == 3    \* calls the user makes on bridges plus notifications
MaxListeners == 1    \* listeners the user registers per emitter and event

\* ------------------------------------------------------------------ inputs
Paths == {"", "/p"}                 \* the path option of the constructor
Suffixes == {"/a", "/b"}            \* arguments of of()
Events == {"greet"}                 \* event names the user and the page use
PageAckIds == {"greet-ack"}         \* acknowledgement ids the page generates
Contexts == {1, 2}                  \* executionContextId values
None == 0                           \* undefined

\* A value passed as an argument: typeof v === 'function' is v.fn.
Val(x) == [fn |-> FALSE, id |-> x]
Fn(x) == [fn |-> TRUE, id |-> x]
DataArgs == {<<>>, <<Val("hi")>>}
UserArgs == DataArgs \cup {<<Val("hi"), Fn("ack")>>}

VARIABLES
  servers,     \* CDPSocketServer instances: the root is servers[1]
  sockets,     \* CDPSocket instances, in order of construction
  subscribed,  \* the client's Runtime.bindingCalled handlers, by socket
  bindings,    \* names the client registered by Runtime.addBinding
  calls,       \* attachCDPClient invocations and where each one is
  encodes,     \* encode() promises not yet settled
  evals,       \* Runtime.evaluate commands sent and not yet answered
  decodes,     \* decode() promises not yet settled
  callbacks,   \* synthesized callbacks handed to a local listener
  page,        \* acknowledgement ids the page has received
  dispatches,  \* the local dispatches super.emit(event, ...) made, a bag
  unhandled,   \* an exception or rejection nobody handled has occurred
  counters     \* uuids drawn, notifications delivered, registry emit calls,
               \* of() calls, operations started

vars == <<servers, sockets, subscribed, bindings, calls, encodes, evals,
          decodes, callbacks, page, dispatches, unhandled, counters>>

clientVars == <<subscribed, bindings>>
asyncVars == <<encodes, evals, decodes>>
pageVars == <<callbacks, page, dispatches, unhandled>>

\* ------------------------------------------------------------- helpers
Range(f) == {f[x] : x \in DOMAIN f}

EmptyMap == [k \in {} |-> None]

\* Mutant of NewServer: the namespace is left out of _fullNamespace.
NewServerPathOnly(path, namespace) ==
  [path |-> path, fullNamespace |-> path,
   namespaceMap |-> EmptyMap, cdpSocket |-> None, listeners |-> 0]

\* CDPSocketServer constructor: _fullNamespace = `${path}${namespace}`.
NewServer(path, namespace) ==
  [path |-> path, fullNamespace |-> path \o namespace,
   namespaceMap |-> EmptyMap, cdpSocket |-> None, listeners |-> 0]

\* The binding name init() registers and processCDPRuntimeBinding matches.
BindingName(namespace) == "cypressSendToServer-" \o namespace

\* new CDPSocket(cdpClient, namespace).  closed is history: close() has run.
NewSocket(namespace) ==
  [namespace |-> namespace, cdpClient |-> TRUE, executionContextId |-> None,
   listeners |-> <<>>, closed |-> FALSE]

\* Object.values(this._namespaceMap)
Children(n) == Range(servers[n].namespaceMap)

\* The nodes close() / disconnectSockets() reach from n, n included.
RECURSIVE Subtree(_)
Subtree(n) ==
  {n} \cup UNION {Subtree(m) : m \in Children(n)}

ServerIds == 1..Len(servers)
SocketIds == 1..Len(sockets)
CallIds == 1..Len(calls)

\* get connected (): !!this._cdpClient
Connected(b) == sockets[b].cdpClient

InitCommon ==
  /\ calls = <<>>
  /\ encodes = {}
  /\ evals = {}
  /\ decodes = {}
  /\ callbacks = {}
  /\ page = {}
  /\ dispatches = EmptyBag
  /\ unhandled = FALSE
  /\ counters = [uuid |-> 0, notes |-> 0, emits |-> 0, ofs |-> 0, ops |-> 0]

\* A registry just constructed: new CDPSocketServer().
Init ==
  /\ servers = <<NewServer("", "/default")>>
  /\ sockets = <<>>
  /\ subscribed = {}
  /\ bindings = {}
  /\ InitCommon

\* One more operation started by the user or the page.
CanStartServer == counters.ops < MaxServerOps
CanStartSocket == counters.ops < MaxSocketOps
Started == [counters EXCEPT !.ops = @ + 1]
StartedEmit == [counters EXCEPT !.ops = @ + 1, !.uuid = @ + 1]
StartedNote == [counters EXCEPT !.ops = @ + 1, !.notes = @ + 1]
StartedForward ==
  [counters EXCEPT !.ops = @ + 1, !.uuid = @ + 1, !.emits = @ + 1]
StartedDrop == [counters EXCEPT !.ops = @ + 1, !.emits = @ + 1]
StartedOf == [counters EXCEPT !.ops = @ + 1, !.ofs = @ + 1]

\* ------------------------------------------------------------ CDPSocket
\* CDPSocket.close: off('Runtime.bindingCalled', ...), _cdpClient = undefined.
ClosedSocket(sock) == [sock EXCEPT !.cdpClient = FALSE, !.closed = TRUE]

\* Mutant of SocketClose: the reference is dropped, the handler stays on.
SocketCloseFlagged(b) ==
  /\ CanStartSocket
  /\ counters' = Started
  /\ sockets' = [sockets EXCEPT ![b] = ClosedSocket(@)]
  /\ UNCHANGED <<servers, clientVars, calls, asyncVars, pageVars>>

\* Mutant of SocketClose: every Runtime.bindingCalled handler is taken off
\* the client (removeAllListeners), not only this bridge's.
SocketCloseAll(b) ==
  /\ CanStartSocket
  /\ counters' = Started
  /\ sockets' = [sockets EXCEPT ![b] = ClosedSocket(@)]
  /\ subscribed' = {}
  /\ UNCHANGED <<servers, bindings, calls, asyncVars, pageVars>>

SocketClose(b) ==
  /\ CanStartSocket
  /\ counters' = Started
  /\ sockets' = [sockets EXCEPT ![b] = ClosedSocket(@)]
  /\ subscribed' = subscribed \ {b}
  /\ UNCHANGED <<servers, bindings, calls, asyncVars, pageVars>>

\* CDPSocket.disconnect: this.close().
SocketDisconnect(b) == SocketClose(b)

\* on(event, listener) on a bridge, by the user.
SocketOn(b, event) ==
  /\ Cardinality({i \in DOMAIN sockets[b].listeners :
                    sockets[b].listeners[i].event = event}) < MaxListeners
  /\ CanStartSocket
  /\ counters' = Started
  /\ sockets' = [sockets EXCEPT ![b].listeners =
                   Append(@, [event |-> event, once |-> FALSE, fn |-> "on"])]
  /\ UNCHANGED <<servers, clientVars, calls, asyncVars, pageVars>>

\* The trailing function of an emit's arguments, if there is one.
HasCallback(args) == Len(args) > 0 /\ args[Len(args)].fn

\* Mutant of Payload: the function is left in the encoded arguments.
PayloadKept(args) == args

\* args after args.pop() of the trailing function.
Payload(args) ==
  IF HasCallback(args) THEN SubSeq(args, 1, Len(args) - 1) ELSE args

\* `${event}-${uuid}` with the uuid randomUUID() returns: the n-th draw.
CallbackEvent(event, uuid) == event \o "-" \o ToString(uuid)

\* this.once(callbackEvent, callback)
AckListener(callbackEvent, callback) ==
  [event |-> callbackEvent, once |-> TRUE, fn |-> callback.id]

\* CDPSocket.emit up to `return true`: draws the uuid, registers the
\* acknowledgement listener and starts encode([event, callbackEvent, args]).
EmitListeners(listeners, event, uuid, args) ==
  IF HasCallback(args)
  THEN Append(listeners,
              AckListener(CallbackEvent(event, uuid), args[Len(args)]))
  ELSE listeners

\* contextAtEmit is history: _executionContextId when emit was called.
EmitEnvelope(b, event, uuid, args) ==
  [socket |-> b, event |-> event,
   callbackEvent |-> CallbackEvent(event, uuid), args |-> Payload(args),
   contextAtEmit |-> sockets[b].executionContextId]

Emit(b, event, args) ==
  LET uuid == counters.uuid + 1
  IN /\ sockets' = [sockets EXCEPT ![b].listeners =
                      EmitListeners(@, event, uuid, args)]
     /\ encodes' = encodes \cup {EmitEnvelope(b, event, uuid, args)}
     /\ UNCHANGED <<subscribed, bindings, calls, evals, decodes, pageVars>>

\* emit(event, ...args) on a bridge, by the user.
SocketEmit(b, event, args) ==
  /\ CanStartSocket
  /\ counters' = StartedEmit
  /\ Emit(b, event, args)
  /\ UNCHANGED servers

\* encode(...).then: this._cdpClient?.send('Runtime.evaluate', { expression,
\* contextId: this._executionContextId }).
\* Mutant of Evaluation: the context is read when emit is called, not when
\* the evaluation is sent.
EvaluationUntargeted(job) ==
  [socket |-> job.socket, event |-> job.event,
   callbackEvent |-> job.callbackEvent, args |-> job.args,
   contextAtEmit |-> job.contextAtEmit, contextId |-> job.contextAtEmit]

Evaluation(job) ==
  [socket |-> job.socket, event |-> job.event,
   callbackEvent |-> job.callbackEvent, args |-> job.args,
   contextAtEmit |-> job.contextAtEmit,
   contextId |-> sockets[job.socket].executionContextId]

\* Mutant of EncodeDone: the evaluation is sent and the job is kept to be
\* sent again.
EncodeDoneRetry(job) ==
  /\ job \in encodes
  /\ evals' = IF sockets[job.socket].cdpClient
              THEN evals \cup {Evaluation(job)} ELSE evals
  /\ UNCHANGED <<servers, sockets, clientVars, calls, encodes, decodes,
                 pageVars, counters>>

EncodeDone(job) ==
  /\ job \in encodes
  /\ encodes' = encodes \ {job}
  /\ evals' = IF sockets[job.socket].cdpClient
              THEN evals \cup {Evaluation(job)} ELSE evals
  /\ UNCHANGED <<servers, sockets, clientVars, calls, decodes, pageVars,
                 counters>>

\* Mutant of EvalAnswered: the rejection is not caught.
EvalAnsweredUncaught(e, ok) ==
  /\ e \in evals
  /\ evals' = evals \ {e}
  /\ page' = IF ok THEN page \cup {e.callbackEvent} ELSE page
  /\ unhandled' = (unhandled \/ ~ok)
  /\ UNCHANGED <<servers, sockets, clientVars, calls, encodes, decodes,
                 callbacks, dispatches, counters>>

\* The client answers Runtime.evaluate.  Fulfilled: the page ran the
\* expression and has the envelope.  Rejected: .catch(() => {}).
EvalAnswered(e, ok) ==
  /\ e \in evals
  /\ evals' = evals \ {e}
  /\ page' = IF ok THEN page \cup {e.callbackEvent} ELSE page
  /\ UNCHANGED <<servers, sockets, clientVars, calls, encodes, decodes,
                 callbacks, dispatches, unhandled, counters>>

\* Mutant of Accepts: the handler takes every notification.
AcceptsAll(b, name) == TRUE

\* processCDPRuntimeBinding of bridge b for one notification: the name
\* filter, then _executionContextId, JSON.parse and decode(data).
Accepts(b, name) == name = BindingName(sockets[b].namespace)

\* closed is history: whether close() had run on b at the delivery.
Accepted(b, note) ==
  [id |-> note.id, socket |-> b, name |-> note.name, event |-> note.event,
   callbackEvent |-> note.callbackEvent, args |-> note.args,
   closed |-> sockets[b].closed]

\* Mutant of Targeted: _executionContextId is set before the name filter.
TargetedAll(takers, ctx) ==
  [b \in SocketIds |->
     IF b \in subscribed THEN [sockets[b] EXCEPT !.executionContextId = ctx]
     ELSE sockets[b]]

\* The handlers that get past the name filter set _executionContextId.
Targeted(takers, ctx) ==
  [b \in SocketIds |->
     IF b \in takers THEN [sockets[b] EXCEPT !.executionContextId = ctx]
     ELSE sockets[b]]

\* The client emits Runtime.bindingCalled: every subscribed handler runs.
BindingCalled(name, event, callbackEvent, args, ctx) ==
  LET note == [id |-> counters.notes + 1, name |-> name, event |-> event,
               callbackEvent |-> callbackEvent, args |-> args]
      takers == {b \in subscribed : Accepts(b, name)}
  IN /\ CanStartSocket
     /\ counters' = StartedNote
     /\ sockets' = Targeted(takers, ctx)
     /\ decodes' = decodes \cup {Accepted(b, note) : b \in takers}
     /\ UNCHANGED <<servers, clientVars, calls, encodes, evals, pageVars>>

\* The same with a payload that is not JSON: JSON.parse throws in the async
\* handler, after _executionContextId is set, and nobody handles the
\* rejected promise.
BindingCalledMalformed(name, ctx) ==
  LET takers == {b \in subscribed : Accepts(b, name)}
  IN /\ CanStartSocket
     /\ counters' = Started
     /\ sockets' = Targeted(takers, ctx)
     /\ unhandled' = (unhandled \/ takers # {})
     /\ UNCHANGED <<servers, clientVars, calls, asyncVars, callbacks, page,
                    dispatches>>

\* The synthesized callback: (...callbackArgs) => this.emit(callbackEvent, ...)
Callback(b, callbackEvent) == [socket |-> b, event |-> callbackEvent]

\* Mutant of DispatchArgs: the callback is not handed to the listeners.
DispatchArgsBare(d) == d.args

\* What super.emit(event, ...args, callback) hands to each listener.
DispatchArgs(d) == d.args \o <<Fn(d.callbackEvent)>>

Listening(b, event) ==
  {i \in DOMAIN sockets[b].listeners : sockets[b].listeners[i].event = event}

\* Mutant of AfterDispatch: a once listener stays registered.
AfterDispatchKept(listeners, event) == listeners

\* The listeners left after a dispatch of event: the once listeners of the
\* event are removed.
RECURSIVE AfterDispatch(_, _)
AfterDispatch(listeners, event) ==
  IF listeners = <<>> THEN <<>>
  ELSE LET l == Head(listeners)
           rest == AfterDispatch(Tail(listeners), event)
       IN IF l.event = event /\ l.once THEN rest ELSE <<l>> \o rest

\* One super.emit(event, ...args, callback): on which bridge, for which
\* notification (and what the page passed in it), with what arguments, to
\* which listeners and whether the bridge was connected.
Dispatch(d) ==
  [id |-> d.id, socket |-> d.socket, name |-> d.name, event |-> d.event,
   passed |-> d.args, closed |-> d.closed,
   args |-> DispatchArgs(d), connected |-> sockets[d.socket].cdpClient,
   fired |-> {sockets[d.socket].listeners[i].fn :
                i \in Listening(d.socket, d.event)}]

\* decode(data).then: super.emit(event, ...args, callback).
DecodeDone(d) ==
  LET b == d.socket
  IN /\ d \in decodes
     /\ decodes' = decodes \ {d}
     /\ dispatches' = dispatches (+) SetToBag({Dispatch(d)})
     /\ sockets' = [sockets EXCEPT ![b].listeners = AfterDispatch(@, d.event)]
     /\ callbacks' = IF Listening(b, d.event) # {}
                     THEN callbacks \cup {Callback(b, d.callbackEvent)}
                     ELSE callbacks
     /\ UNCHANGED <<servers, clientVars, calls, encodes, evals, page,
                    unhandled, counters>>

\* A local listener calls the synthesized callback it was handed.
InvokeCallback(cb, args) ==
  /\ cb \in callbacks
  /\ CanStartSocket
  /\ counters' = StartedEmit
  /\ Emit(cb.socket, cb.event, args)
  /\ UNCHANGED servers

\* ------------------------------------------------------ CDPSocketServer
\* of(namespace): the child under `${this._path}${namespace}`, made on the
\* first call with the parent's _path.
OfKey(n, namespace) == servers[n].path \o namespace

\* The registry after of(namespace) on n has made a child.
WithChild(n, namespace) ==
  LET key == OfKey(n, namespace)
      child == Len(servers) + 1
  IN Append([servers EXCEPT ![n].namespaceMap =
               [k \in DOMAIN @ \cup {key} |-> IF k = key THEN child ELSE @[k]]],
            NewServer(servers[n].path, namespace))

\* Mutant of Of: the child is made on every call.
OfAlways(n, namespace) ==
  /\ CanStartServer
  /\ counters' = StartedOf
  /\ servers' = WithChild(n, namespace)
  /\ UNCHANGED <<sockets, clientVars, calls, asyncVars, pageVars>>

Of(n, namespace) ==
  LET known == OfKey(n, namespace) \in DOMAIN servers[n].namespaceMap
  IN /\ CanStartServer
     /\ counters' = StartedOf
     /\ servers' = IF known THEN servers ELSE WithChild(n, namespace)
     /\ UNCHANGED <<sockets, clientVars, calls, asyncVars, pageVars>>

\* What of(namespace) returns: this._namespaceMap[fullNamespace].
OfReturn(n, namespace) == servers[n].namespaceMap[OfKey(n, namespace)]

\* on('connection', listener) on a registry node, by the user.
ServerOn(n) ==
  /\ servers[n].listeners < MaxListeners
  /\ CanStartServer
  /\ counters' = Started
  /\ servers' = [servers EXCEPT ![n].listeners = @ + 1]
  /\ UNCHANGED <<sockets, clientVars, calls, asyncVars, pageVars>>

\* An attachCDPClient invocation that has just called
\* cdpClient.send('Runtime.enable') in CDPSocket.init.  History: log is what
\* the invocation has done so far, in order; scope is the subtree when the
\* call was made; closed is the nodes close() has reached since then; socket
\* is the bridge init made for the invocation, once it has.
NewCall(n, parent) ==
  [server |-> n, parent |-> parent, pc |-> "enable", log |-> <<"enable">>,
   scope |-> Subtree(n), closed |-> {}, socket |-> None]

\* attachCDPClient(cdpClient) called by the user: runs up to the first await.
AttachCDPClient(n) ==
  /\ CanStartServer
  /\ counters' = Started
  /\ calls' = Append(calls, NewCall(n, None))
  /\ UNCHANGED <<servers, sockets, clientVars, asyncVars, pageVars>>

\* The client answers Runtime.enable: init goes on to send
\* Runtime.addBinding, or the rejection ends the call.
EnableAnswered(c, ok) ==
  /\ calls[c].pc = "enable"
  /\ calls' = [calls EXCEPT
       ![c].pc = IF ok THEN "addBinding" ELSE "rejected",
       ![c].log = IF ok THEN @ \o <<"enabled", "addBinding">> ELSE @]
  /\ UNCHANGED <<servers, sockets, clientVars, asyncVars, pageVars, counters>>

RECURSIVE SeqOfSet(_)
SeqOfSet(S) ==
  IF S = {} THEN <<>>
  ELSE LET x == CHOOSE y \in S : \A z \in S : y <= z
       IN <<x>> \o SeqOfSet(S \ {x})

\* Mutant of ChildCalls: the children are not attached.
ChildCallsNone(n, c) == <<>>

\* Object.values(this._namespaceMap).map((server) => server.attachCDPClient(
\* cdpClient)): one invocation per existing child, in the order of creation.
ChildCalls(n, c) ==
  LET kids == SeqOfSet(Children(n))
  IN [i \in 1..Len(kids) |-> NewCall(kids[i], c)]

\* The rest of attachCDPClient once init has returned the bridge: store it,
\* start the children's attachCDPClient and, with no child (Promise.all([])
\* is fulfilled at once), emit 'connection'.
Attached(c, b) ==
  LET n == calls[c].server
      kids == ChildCalls(n, c)
  IN /\ servers' = [servers EXCEPT ![n].cdpSocket = b]
     /\ calls' = [calls EXCEPT
          ![c].socket = b,
          ![c].pc = IF Len(kids) = 0 THEN "done" ELSE "children",
          ![c].log = @ \o <<"bound", "subscribe", "assign">> \o
                     (IF Len(kids) = 0 THEN <<"connection">> ELSE <<>>)]
          \o kids

\* The client answers Runtime.addBinding.  On success init constructs the
\* CDPSocket, which subscribes to Runtime.bindingCalled.
BindingAnswered(c, ok) ==
  LET n == calls[c].server
      b == Len(sockets) + 1
  IN /\ calls[c].pc = "addBinding"
     /\ IF ok
        THEN /\ bindings' = bindings \cup {BindingName(servers[n].fullNamespace)}
             /\ sockets' = Append(sockets, NewSocket(servers[n].fullNamespace))
             /\ subscribed' = subscribed \cup {b}
             /\ Attached(c, b)
        ELSE /\ calls' = [calls EXCEPT ![c].pc = "rejected"]
             /\ UNCHANGED <<servers, sockets, subscribed, bindings>>
     /\ UNCHANGED <<asyncVars, pageVars, counters>>

ChildrenOfCall(c) == {d \in CallIds : calls[d].parent = c}

\* Mutant of ChildrenFulfilled: 'connection' does not wait for the children.
ChildrenFulfilledEarly(c) ==
  /\ calls[c].pc = "children"
  /\ calls' = [calls EXCEPT ![c].pc = "done",
                            ![c].log = @ \o <<"children", "connection">>]
  /\ UNCHANGED <<servers, sockets, clientVars, asyncVars, pageVars, counters>>

\* Promise.all is fulfilled once every child invocation is: then
\* super.emit('connection', this._cdpSocket).
ChildrenFulfilled(c) ==
  /\ calls[c].pc = "children"
  /\ \A d \in ChildrenOfCall(c) : calls[d].pc = "done"
  /\ calls' = [calls EXCEPT ![c].pc = "done",
                            ![c].log = @ \o <<"children", "connection">>]
  /\ UNCHANGED <<servers, sockets, clientVars, asyncVars, pageVars, counters>>

\* Promise.all rejects as soon as one child invocation is rejected: the call
\* ends without a 'connection' event (the other children go on).
ChildrenRejected(c) ==
  /\ calls[c].pc = "children"
  /\ \E d \in ChildrenOfCall(c) : calls[d].pc = "rejected"
  /\ calls' = [calls EXCEPT ![c].pc = "rejected"]
  /\ UNCHANGED <<servers, sockets, clientVars, asyncVars, pageVars, counters>>

\* Mutant of ServerEmit: this._cdpSocket.emit(...) without the ?. guard
\* throws on a node that holds no bridge.
ServerEmitUnguarded(n, event, args) ==
  /\ CanStartServer
  /\ IF servers[n].cdpSocket # None
     THEN /\ Emit(servers[n].cdpSocket, event, args)
          /\ counters' = StartedForward
     ELSE /\ counters' = StartedDrop
          /\ unhandled' = TRUE
          /\ UNCHANGED <<sockets, clientVars, calls, asyncVars, callbacks,
                         page, dispatches>>
  /\ UNCHANGED servers

\* CDPSocketServer.emit: this._cdpSocket?.emit(event, ...args); return true.
ServerEmit(n, event, args) ==
  /\ CanStartServer
  /\ IF servers[n].cdpSocket # None
     THEN /\ Emit(servers[n].cdpSocket, event, args)
          /\ counters' = StartedForward
     ELSE /\ counters' = StartedDrop
          /\ UNCHANGED <<sockets, clientVars, calls, asyncVars, pageVars>>
  /\ UNCHANGED servers

ServerEmitReturn == TRUE

\* The bridges close() reaches: _cdpSocket of every node of the subtree.
Held(nodes) == {servers[m].cdpSocket : m \in nodes} \ {None}

\* Mutant of Released: removeAllListeners() is left out.
ReleasedBridgeOnly(server) == [server EXCEPT !.cdpSocket = None]

\* close(): this._cdpSocket?.close(), removeAllListeners(), _cdpSocket =
\* undefined, then close() on every child.
Released(server) == [server EXCEPT !.cdpSocket = None, !.listeners = 0]

ServerClose(n) ==
  LET nodes == Subtree(n)
      held == Held(nodes)
  IN /\ CanStartServer
     /\ counters' = Started
     /\ servers' = [m \in ServerIds |->
                      IF m \in nodes THEN Released(servers[m]) ELSE servers[m]]
     /\ sockets' = [b \in SocketIds |->
                      IF b \in held THEN ClosedSocket(sockets[b]) ELSE sockets[b]]
     /\ subscribed' = subscribed \ held
     /\ calls' = [c \in CallIds |-> [calls[c] EXCEPT !.closed = @ \cup nodes]]
     /\ UNCHANGED <<bindings, asyncVars, pageVars>>

\* disconnectSockets(close?): the same teardown, recursing by itself.
DisconnectSockets(n) == ServerClose(n)

\* ------------------------------------------------------- specifications
\* What the user calls on the registry and what the client answers.
NextServer ==
  \/ \E n \in ServerIds, s \in Suffixes : Of(n, s)
  \/ \E n \in ServerIds : ServerOn(n)
  \/ \E n \in ServerIds : AttachCDPClient(n)
  \/ \E c \in CallIds, ok \in BOOLEAN : EnableAnswered(c, ok)
  \/ \E c \in CallIds, ok \in BOOLEAN : BindingAnswered(c, ok)
  \/ \E c \in CallIds : ChildrenFulfilled(c)
  \/ \E c \in CallIds : ChildrenRejected(c)
  \/ \E n \in ServerIds, e \in Events, a \in UserArgs : ServerEmit(n, e, a)
  \/ \E n \in ServerIds : ServerClose(n)
  \/ \E n \in ServerIds : DisconnectSockets(n)
  \/ \E job \in encodes : EncodeDone(job)
  \/ \E e \in evals, ok \in BOOLEAN : EvalAnswered(e, ok)

SpecServer == Init /\ [][NextServer]_vars

\* Bridges made by CDPSocket.init on one client, and what the user, the
\* client and the page do with them.
InitSocket ==
  /\ servers = <<>>
  /\ \E ns \in {"/default", "/a"} :
       /\ sockets = <<NewSocket("/default"), NewSocket(ns)>>
       /\ bindings = {BindingName("/default"), BindingName(ns)}
  /\ subscribed = {1, 2}
  /\ InitCommon

NextSocket ==
  \/ \E b \in SocketIds, e \in Events : SocketOn(b, e)
  \/ \E b \in SocketIds, e \in Events, a \in UserArgs : SocketEmit(b, e, a)
  \/ \E job \in encodes : EncodeDone(job)
  \/ \E e \in evals, ok \in BOOLEAN : EvalAnswered(e, ok)
  \/ \E name \in bindings, e \in Events \cup page, a \in DataArgs,
        id \in PageAckIds, ctx \in Contexts :
       BindingCalled(name, e, id, a, ctx)
  \/ \E name \in bindings, ctx \in Contexts : BindingCalledMalformed(name, ctx)
  \/ \E d \in decodes : DecodeDone(d)
  \/ \E cb \in callbacks, a \in UserArgs : InvokeCallback(cb, a)
  \/ \E b \in SocketIds : SocketClose(b)
  \/ \E b \in SocketIds : SocketDisconnect(b)

SpecSocket == InitSocket /\ [][NextSocket]_vars

\* A registry constructed with a path option, new CDPSocketServer({ path }),
\* on which of('/a') and of('/b') have been called, and the of() calls made
\* on its nodes from there.
InitNames ==
  /\ \E p \in Paths :
       servers = <<[NewServer(p, "/default") EXCEPT
                      !.namespaceMap = (p \o "/a" :> 2) @@ (p \o "/b" :> 3)],
                   NewServer(p, "/a"), NewServer(p, "/b")>>
  /\ sockets = <<>>
  /\ subscribed = {}
  /\ bindings = {}
  /\ InitCommon

NextNames == \E n \in ServerIds, s \in Suffixes : Of(n, s)

SpecNames == InitNames /\ [][NextNames]_vars

\* --------------------------------------------------------------- claims
Dispatched == BagToSet(dispatches)

\* The jobs of an emit that are on their way to the page.
Outbound == encodes \cup evals

\* C1: a Runtime.bindingCalled notification named for bridge a's namespace
\* never makes a local dispatch on a bridge b of another namespace: every
\* dispatch made on b, and every invocation b took and is still decoding,
\* came under b's own binding name and no other bridge's.
C1_NamespaceIsolation ==
  \A x \in Dispatched \cup decodes : \A a \in SocketIds :
    sockets[a].namespace # sockets[x.socket].namespace
      => x.name # "cypressSendToServer-" \o sockets[a].namespace

\* C1 happens: a listener of bridge a fired for a notification under a's
\* name while bridge b, of another namespace, subscribed and listening for
\* the same event, got nothing.
C1_Witness ==
  \E x \in Dispatched : \E b \in SocketIds :
    /\ x.fired # {}
    /\ sockets[b].namespace # sockets[x.socket].namespace
    /\ b \in subscribed
    /\ Listening(b, x.event) # {}
    /\ \A y \in Dispatched \cup decodes : y.socket # b

\* An emit call on bridge b: by the user, or by a synthesized callback.
EmitCall(b, event, args) ==
  \/ SocketEmit(b, event, args)
  \/ InvokeCallback([socket |-> b, event |-> event], args)

EmitEvents == Events \cup {cb.event : cb \in callbacks}

\* The acknowledgement id is fresh: nothing was registered or sent under it.
FreshId(id) ==
  /\ \A job \in Outbound \cup decodes : job.callbackEvent # id /\ job.event # id
  /\ \A b \in SocketIds : Listening(b, id) = {}
  /\ id \notin page

\* C2: an emit whose last argument is a function registers exactly one once
\* listener, that function, under the fresh id `${event}-${uuid}`, encodes the
\* arguments without it, and has the listener in place while the evaluation
\* is not yet dispatched (emit returns with the encode pending and nothing
\* sent); an emit without a trailing function registers no listener.
C2_EmitRegistersAck ==
  [][\A b \in SocketIds, event \in EmitEvents, args \in UserArgs :
       EmitCall(b, event, args) =>
         LET id == event \o "-" \o ToString(counters'.uuid)
             last == IF args = <<>> THEN Val("none") ELSE args[Len(args)]
             before == sockets[b].listeners
             after == sockets'[b].listeners
         IN /\ FreshId(id)
            /\ \A c \in SocketIds \ {b} : sockets'[c] = sockets[c]
            /\ IF last.fn
               THEN /\ after = Append(before,
                                 [event |-> id, once |-> TRUE, fn |-> last.id])
                    /\ encodes' = encodes \cup
                         {[socket |-> b, event |-> event, callbackEvent |-> id,
                           args |-> SubSeq(args, 1, Len(args) - 1),
                           contextAtEmit |-> sockets[b].executionContextId]}
               ELSE /\ after = before
                    /\ encodes' = encodes \cup
                         {[socket |-> b, event |-> event, callbackEvent |-> id,
                           args |-> args,
                           contextAtEmit |-> sockets[b].executionContextId]}
            /\ Cardinality(encodes') = Cardinality(encodes) + 1
            /\ evals' = evals]_vars

\* C2 happens: an acknowledgement listener is registered for an emit whose
\* encode is pending, so that no evaluation has been dispatched for it.
C2_Witness ==
  \E job \in encodes :
    /\ Cardinality(Listening(job.socket, job.callbackEvent)) = 1
    /\ \A e \in evals : e.callbackEvent # job.callbackEvent
    /\ \A a \in DOMAIN job.args : ~job.args[a].fn

\* The listener functions emit registered for an acknowledgement.
AckFns == {"ack"}

\* C3: the pending acknowledgement listener fires with exactly the arguments
\* the page passed in the acknowledgement, no more and no fewer.
C3_AckArgsExact ==
  \A x \in Dispatched : x.fired \cap AckFns # {} => x.args = x.passed

\* C4: once close() / disconnect() has run on a bridge, connected is false
\* and the handler is off the client's Runtime.bindingCalled stream in every
\* later state, and no invocation delivered after it is taken by the bridge
\* or dispatched on it; before the first close connected is true.
C4_CloseUnsubscribes ==
  /\ \A b \in SocketIds :
       /\ sockets[b].closed => ~Connected(b) /\ b \notin subscribed
       /\ ~sockets[b].closed => Connected(b)
  /\ \A x \in Dispatched \cup decodes : ~x.closed

\* C4 happens: bridge b is closed and a notification under its binding name
\* was delivered afterwards (a subscribed bridge of the same namespace took
\* it, b did not).
C4_Witness ==
  \E b \in SocketIds : \E x \in Dispatched \cup decodes :
    /\ sockets[b].closed
    /\ x.socket # b
    /\ x.name = BindingName(sockets[b].namespace)
    /\ \A y \in Dispatched \cup decodes : y.socket = b => y.id # x.id

\* What one settled decode must leave: the job gone and one more dispatch, on
\* the bridge that took the invocation, of its event with its arguments
\* followed by a callback for its acknowledgement id.
DispatchedOnce(d) ==
  /\ d \notin decodes'
  /\ \E x \in BagToSet(dispatches') :
       /\ x.id = d.id /\ x.socket = d.socket /\ x.event = d.event
       /\ x.args = d.args \o <<[fn |-> TRUE, id |-> d.callbackEvent]>>
       /\ CopiesIn(x, dispatches') = 1
       /\ dispatches' = dispatches (+) SetToBag({x})
  /\ BagCardinality(dispatches') = BagCardinality(dispatches) + 1
  /\ callbacks' \subseteq
       callbacks \cup {[socket |-> d.socket, event |-> d.callbackEvent]}

\* What one call of a synthesized callback with arguments xs must leave: one
\* more emit, on the callback's bridge, under the acknowledgement id as event
\* name and a fresh acknowledgement id, carrying sent.
EmittedOnce(cb, sent) ==
  LET id == cb.event \o "-" \o ToString(counters'.uuid)
  IN /\ counters'.uuid = counters.uuid + 1
     /\ FreshId(id)
     /\ encodes' = encodes \cup
          {[socket |-> cb.socket, event |-> cb.event, callbackEvent |-> id,
            args |-> sent,
            contextAtEmit |-> sockets[cb.socket].executionContextId]}
     /\ Cardinality(encodes') = Cardinality(encodes) + 1

\* C5 as claimed: every accepted invocation is dispatched exactly once with
\* its arguments and a synthesized callback, and each call of that callback
\* with arguments xs makes exactly one emit of (ackId, fresh id, xs).
C5_CallbackEmitsArgs ==
  [][/\ \A d \in decodes : DecodeDone(d) => DispatchedOnce(d)
     /\ \A cb \in callbacks, xs \in UserArgs :
          InvokeCallback(cb, xs) => EmittedOnce(cb, xs)]_vars

\* C5 as amended: the emit carries xs without a trailing function, which
\* emit takes as the acknowledgement callback of that emit.
C5_CallbackEmitsPayload ==
  [][/\ \A d \in decodes : DecodeDone(d) => DispatchedOnce(d)
     /\ \A cb \in callbacks, xs \in UserArgs :
          InvokeCallback(cb, xs) =>
            EmittedOnce(cb, IF xs # <<>> /\ xs[Len(xs)].fn
                            THEN SubSeq(xs, 1, Len(xs) - 1) ELSE xs)]_vars

\* C5 happens: an invocation was dispatched to a listener and the callback
\* it was handed has been called with data: an emit under the page's
\* acknowledgement id, carrying that data, is on its way.
C5_Witness ==
  \E x \in Dispatched : \E job \in Outbound :
    /\ x.fired # {}
    /\ job.socket = x.socket
    /\ job.event \in PageAckIds
    /\ x.args[Len(x.args)] = Fn(job.event)
    /\ job.args # <<>>

\* What a node that attachCDPClient has covered holds: a connected bridge,
\* subscribed to the client, of the node's full namespace, whose binding the
\* client has registered.
HoldsBridge(m) ==
  LET b == servers[m].cdpSocket
  IN /\ b # None
     /\ sockets[b].cdpClient
     /\ b \in subscribed
     /\ sockets[b].namespace = servers[m].fullNamespace
     /\ ("cypressSendToServer-" \o servers[m].fullNamespace) \in bindings

\* C6 as claimed: when attachCDPClient resolves, the node and every node of
\* its subtree that existed when the call was made holds a connected bridge
\* with its binding registered under its own full namespace.
C6_AttachCoversSubtree ==
  [][\A c \in CallIds :
       calls[c].pc # "done" /\ calls'[c].pc = "done"
         => \A m \in calls[c].scope : HoldsBridge(m)']_vars

\* C6 as amended: once attachCDPClient has resolved, every such node that no
\* close() / disconnectSockets() has reached since the call was made holds
\* one.
C6_AttachCoversUnclosed ==
  \A c \in CallIds :
    calls[c].pc = "done"
      => \A m \in calls[c].scope \ calls[c].closed : HoldsBridge(m)

\* C6 happens: a call on a node with a child has resolved, nothing was
\* closed, and both nodes hold their bridge.
C6_Witness ==
  \E c \in CallIds :
    /\ calls[c].pc = "done"
    /\ calls[c].parent = None
    /\ Cardinality(calls[c].scope) > 1
    /\ calls[c].closed = {}
    /\ \A m \in calls[c].scope : HoldsBridge(m)

RECURSIVE IsPrefix(_, _)
IsPrefix(s, t) ==
  \/ s = <<>>
  \/ /\ t # <<>>
     /\ Head(s) = Head(t)
     /\ IsPrefix(Tail(s), Tail(t))

Count(log, label) == Cardinality({i \in DOMAIN log : log[i] = label})

\* C7: in one attachCDPClient call Runtime.enable is sent and answered
\* before Runtime.addBinding is sent, the bridge subscribes only after
\* addBinding is answered (the binding is registered), the children are
\* attached only after the node's own bridge is stored, and 'connection' is
\* emitted after the attachment of every child has completed, exactly once
\* for a call that succeeds and never for one that is rejected.
C7_AttachOrder ==
  \A c \in CallIds :
    LET log == calls[c].log
        kids == {d \in CallIds : calls[d].parent = c}
        init == <<"enable", "enabled", "addBinding", "bound", "subscribe",
                  "assign">>
    IN /\ \/ IsPrefix(log, init \o <<"connection">>)
          \/ IsPrefix(log, init \o <<"children", "connection">>)
       /\ Count(log, "subscribe") = 1
            => ("cypressSendToServer-" \o servers[calls[c].server].fullNamespace)
                 \in bindings
       /\ kids # {} => Count(log, "assign") = 1
       /\ Count(log, "connection") = 1
            => /\ \A d \in kids : Count(calls[d].log, "connection") = 1
               /\ \A m \in calls[c].scope \ {calls[c].server} :
                    \E d \in CallIds :
                      d > c /\ calls[d].server = m /\ calls[d].pc = "done"
       /\ calls[c].pc = "done" <=> Count(log, "connection") = 1

\* C7 happens: a call on a node with a child has emitted 'connection' after
\* the child's call did.
C7_Witness ==
  \E c \in CallIds : \E d \in CallIds :
    /\ calls[d].parent = c
    /\ calls[c].pc = "done"
    /\ calls[d].pc = "done"
    /\ Count(calls[c].log, "children") = 1

\* C8: when close() or disconnectSockets() on a node returns, the node and
\* every node of its subtree holds no bridge and has no local listeners,
\* every bridge they held is off the client's stream and not connected, and
\* the tree of child nodes is as before.
C8_CloseReleasesSubtree ==
  [][\A n \in ServerIds :
       ServerClose(n) \/ DisconnectSockets(n) =>
         /\ \A m \in Subtree(n) :
              /\ servers'[m].cdpSocket = None
              /\ servers'[m].listeners = 0
              /\ servers[m].cdpSocket # None =>
                   /\ servers[m].cdpSocket \notin subscribed'
                   /\ ~sockets'[servers[m].cdpSocket].cdpClient
         /\ Len(servers') = Len(servers)
         /\ \A m \in ServerIds :
              servers'[m].namespaceMap = servers[m].namespaceMap]_vars

\* C8 happens: a node and its child, both attached before, hold no bridge
\* and the bridges made for them are closed.
C8_Witness ==
  \E n \in ServerIds : \E m \in Children(n) : \E a, b \in SocketIds :
    /\ servers[n].cdpSocket = None
    /\ servers[m].cdpSocket = None
    /\ a # b
    /\ sockets[a].closed /\ sockets[a].namespace = servers[n].fullNamespace
    /\ sockets[b].closed /\ sockets[b].namespace = servers[m].fullNamespace
    /\ a \notin subscribed /\ b \notin subscribed

\* C9: emit on a node that holds no bridge changes nothing (nothing is sent
\* or encoded, no listener is registered, no error is raised) and returns
\* true; emit on a node that holds a bridge makes exactly one emit on that
\* bridge with the same event and arguments.
C9_ServerEmitForwards ==
  [][\A n \in ServerIds, event \in Events, args \in UserArgs :
       ServerEmit(n, event, args) =>
         /\ ServerEmitReturn
         /\ unhandled' = unhandled
         /\ evals' = evals
         /\ IF servers[n].cdpSocket = None
            THEN /\ sockets' = sockets
                 /\ encodes' = encodes
                 /\ counters'.uuid = counters.uuid
            ELSE LET b == servers[n].cdpSocket
                     id == event \o "-" \o ToString(counters'.uuid)
                     fn == args # <<>> /\ args[Len(args)].fn
                 IN /\ counters'.uuid = counters.uuid + 1
                    /\ Cardinality(encodes') = Cardinality(encodes) + 1
                    /\ \E job \in encodes' \ encodes :
                         /\ job.socket = b /\ job.event = event
                         /\ job.callbackEvent = id
                         /\ job.args = IF fn THEN SubSeq(args, 1, Len(args) - 1)
                                       ELSE args
                    /\ Len(sockets'[b].listeners) =
                         Len(sockets[b].listeners) + (IF fn THEN 1 ELSE 0)]_vars

\* C9 happens: an emit was dropped on a node without a bridge (an emit call
\* drew no uuid) and an emit was forwarded to the bridge a node holds.
C9_Witness ==
  /\ counters.emits > counters.uuid
  /\ \E n \in ServerIds : \E job \in Outbound :
       servers[n].cdpSocket = job.socket

\* C10: a rejected Runtime.evaluate is swallowed: no error is raised, the
\* bridge stays as it is (connected, subscribed, its listeners kept) and the
\* evaluation is not sent again nor encoded again.
C10_EvalRejectionSwallowed ==
  [][\A e \in evals :
       EvalAnswered(e, FALSE) =>
         /\ unhandled' = unhandled
         /\ sockets' = sockets
         /\ subscribed' = subscribed
         /\ evals' = evals \ {e}
         /\ encodes' = encodes
         /\ page' = page]_vars

\* C10 happens: a bridge that was never closed has an acknowledgement
\* listener whose emit is neither being encoded nor awaiting its answer nor
\* with the page: its evaluation was sent and rejected.
C10_Witness ==
  \E b \in SocketIds : \E i \in DOMAIN sockets[b].listeners :
    LET l == sockets[b].listeners[i]
    IN /\ l.once
       /\ ~sockets[b].closed
       /\ b \in subscribed
       /\ l.event \notin page
       /\ \A job \in Outbound : job.callbackEvent # l.event

\* C11: close() / disconnect() on one bridge takes exactly that bridge's
\* handler off the shared client and changes no other bridge; every bridge
\* still subscribed takes each invocation of its own binding name and
\* dispatches it.
C11_CloseLeavesSiblings ==
  [][/\ \A b \in SocketIds :
          SocketClose(b) \/ SocketDisconnect(b) =>
            /\ subscribed' = subscribed \ {b}
            /\ bindings' = bindings
            /\ \A o \in SocketIds \ {b} : sockets'[o] = sockets[o]
     /\ \A name \in bindings, e \in Events \cup page, a \in DataArgs,
           id \in PageAckIds, ctx \in Contexts :
          BindingCalled(name, e, id, a, ctx) =>
            \A o \in subscribed :
              name = "cypressSendToServer-" \o sockets[o].namespace =>
                \E d \in decodes' \ decodes :
                  d.socket = o /\ d.event = e /\ d.args = a
     /\ \A d \in decodes :
          DecodeDone(d) =>
            \E x \in BagToSet(dispatches') :
              /\ x.id = d.id /\ x.socket = d.socket /\ x.event = d.event
              /\ CopiesIn(x, dispatches') = CopiesIn(x, dispatches) + 1]_vars

\* C11 happens: of two bridges of one namespace on the client one is closed
\* and the other, still subscribed and connected, has dispatched to a
\* listener an invocation that the closed one did not take: it was delivered
\* after the close.
C11_Witness ==
  \E a, o \in SocketIds :
    /\ a # o
    /\ sockets[a].namespace = sockets[o].namespace
    /\ sockets[a].closed
    /\ o \in subscribed /\ sockets[o].cdpClient
    /\ \E x \in Dispatched :
         /\ x.socket = o /\ x.fired # {}
         /\ \A y \in Dispatched : y.id = x.id => y.socket # a
         /\ \A d \in decodes : d.id = x.id => d.socket # a

\* C12: of(suffix) on a node returns the child stored under the suffix: the
\* first call makes it, every later call with the same suffix returns that
\* same instance and makes nothing, and no other step (attach, emit, close,
\* of with another suffix) replaces or removes a stored child.
C12_OfIdempotent ==
  [][/\ \A n \in ServerIds, s \in Suffixes :
          Of(n, s) =>
            LET key == servers[n].path \o s
                known == key \in DOMAIN servers[n].namespaceMap
            IN /\ key \in DOMAIN servers'[n].namespaceMap
               /\ known => /\ servers'[n].namespaceMap[key]
                                = servers[n].namespaceMap[key]
                           /\ Len(servers') = Len(servers)
               /\ ~known => /\ servers'[n].namespaceMap[key] = Len(servers) + 1
                            /\ Len(servers') = Len(servers) + 1
     /\ \A n \in ServerIds : \A k \in DOMAIN servers[n].namespaceMap :
          /\ k \in DOMAIN servers'[n].namespaceMap
          /\ servers'[n].namespaceMap[k] = servers[n].namespaceMap[k]]_vars

\* C12 happens: of was called more often than children were made (one call
\* used a suffix already used on its node) in a run with an attachCDPClient
\* call.
C12_Witness ==
  /\ servers[1].path = ""
  /\ counters.ofs > Len(servers) - 1
  /\ Len(servers) > 1
  /\ calls # <<>>

\* The node of(a).of(b) returns on registry r, once both calls were made.
HasChain(r, a, b) ==
  /\ servers[r].path \o a \in DOMAIN servers[r].namespaceMap
  /\ LET m == servers[r].namespaceMap[servers[r].path \o a]
     IN servers[m].path \o b \in DOMAIN servers[m].namespaceMap

Chain(r, a, b) ==
  LET m == servers[r].namespaceMap[servers[r].path \o a]
  IN servers[m].namespaceMap[servers[m].path \o b]

\* C13: on a registry whose path prefix is not empty, for suffixes a # b the
\* full namespace of of(a).of(b) is not the full namespace of of(b).of(a).
C13_ChainOrderMatters ==
  \A r \in ServerIds : \A a \in Suffixes : \A b \in Suffixes \ {a} :
    servers[r].path # "" /\ HasChain(r, a, b) /\ HasChain(r, b, a)
      => servers[Chain(r, a, b)].fullNamespace
           # servers[Chain(r, b, a)].fullNamespace

\* C13 happens: on a registry with a path prefix both of(a).of(b) and
\* of(b).of(a) have been made.
C13_Witness ==
  \E a \in Suffixes : \E b \in Suffixes \ {a} :
    /\ servers[1].path # ""
    /\ HasChain(1, a, b)
    /\ HasChain(1, b, a)
    /\ Chain(1, a, b) # Chain(1, b, a)

\* C14: any two distinct registry nodes (the root and every node made by
\* chains of of()) have distinct full namespaces, so no two of them register
\* or listen on the same binding name on the client.
C14_UniqueNamespaces ==
  /\ \A m \in ServerIds : \A n \in ServerIds \ {m} :
       servers[m].fullNamespace # servers[n].fullNamespace
  /\ \A a \in subscribed : \A b \in subscribed \ {a} :
       sockets[a].namespace # sockets[b].namespace

\* The dispatches of an acknowledgement id that invoked the callback an emit
\* registered.
AckFired(e) == {x \in Dispatched : x.event = e /\ x.fired \cap AckFns # {}}

\* C15: an acknowledgement listener is one-shot.  The dispatch of its
\* acknowledgement id removes it, so over all inbound acknowledgements that
\* carry the id the callback is invoked at most once; and no other step
\* removes it: without an acknowledgement it stays registered.
C15_AckOneShot ==
  /\ [](\A x \in Dispatched :
          x.event \notin Events =>
            /\ CopiesIn(x, dispatches) = 1
            /\ Cardinality(AckFired(x.event)) <= 1)
  /\ [][/\ \A d \in decodes :
             DecodeDone(d) =>
               \A i \in DOMAIN sockets'[d.socket].listeners :
                 LET l == sockets'[d.socket].listeners[i]
                 IN ~(l.once /\ l.event = d.event)
        /\ \A b \in SocketIds : \A i \in DOMAIN sockets[b].listeners :
             LET l == sockets[b].listeners[i]
             IN l.once =>
                  \/ \E j \in DOMAIN sockets'[b].listeners :
                       sockets'[b].listeners[j] = l
                  \/ \E d \in decodes :
                       d.socket = b /\ d.event = l.event /\ DecodeDone(d)]_vars

\* C15 happens: two acknowledgements with the same id were dispatched on a
\* bridge; the first invoked the callback, the second found no listener.
C15_Witness ==
  \E x, y \in Dispatched :
    /\ x.socket = y.socket
    /\ x.event = y.event
    /\ x.event \notin Events
    /\ x.id # y.id
    /\ x.fired = AckFns
    /\ y.fired = {}

\* C16: a Runtime.evaluate carries as contextId the executionContextId of
\* the latest invocation the bridge accepted by name before the evaluation
\* was sent, and none if it accepted none: the evaluation reads the
\* bridge's recorded context when encode completes, only an accepted
\* invocation writes it, and it writes the invocation's own context.
C16_EvaluateTargetsLatest ==
  [][/\ \A job \in encodes :
          EncodeDone(job) /\ sockets[job.socket].cdpClient =>
            \E e \in evals' \ evals :
              /\ e.socket = job.socket
              /\ e.callbackEvent = job.callbackEvent
              /\ e.contextId = sockets[job.socket].executionContextId
              /\ evals' = evals \cup {e}
     /\ \A b \in SocketIds :
          sockets'[b].executionContextId # sockets[b].executionContextId =>
            /\ b \in subscribed
            /\ counters'.ops = counters.ops + 1
            /\ \E ctx \in Contexts :
                 /\ sockets'[b].executionContextId = ctx
                 /\ \/ BindingCalledMalformed(
                         "cypressSendToServer-" \o sockets[b].namespace, ctx)
                    \/ \E e \in Events \cup page, a \in DataArgs,
                          id \in PageAckIds :
                         BindingCalled(
                           "cypressSendToServer-" \o sockets[b].namespace,
                           e, id, a, ctx)
     /\ \A name \in bindings, ctx \in Contexts :
          (\/ BindingCalledMalformed(name, ctx)
           \/ \E e \in Events \cup page, a \in DataArgs, id \in PageAckIds :
                BindingCalled(name, e, id, a, ctx)) =>
            \A b \in subscribed :
              name = "cypressSendToServer-" \o sockets[b].namespace =>
                sockets'[b].executionContextId = ctx]_vars

\* C16 happens: an evaluation was sent with the context of an invocation
\* that was accepted after its emit was called, and one was sent without a
\* contextId.
C16_Witness ==
  /\ \E e \in evals :
       e.contextId # None /\ e.contextId # e.contextAtEmit
  /\ \E e \in evals : e.contextId = None

\* C17: an inbound invocation whose name is not the bridge's binding name
\* leaves the bridge as it was (recorded context, listeners, client
\* reference, subscription) and makes it decode, dispatch and send nothing.
C17_MismatchIsNoOp ==
  [][\A name \in bindings, ctx \in Contexts :
       (\/ BindingCalledMalformed(name, ctx)
        \/ \E e \in Events \cup page, a \in DataArgs, id \in PageAckIds :
             BindingCalled(name, e, id, a, ctx)) =>
         /\ subscribed' = subscribed
         /\ encodes' = encodes
         /\ evals' = evals
         /\ dispatches' = dispatches
         /\ \A b \in SocketIds :
              name # "cypressSendToServer-" \o sockets[b].namespace =>
                /\ sockets'[b] = sockets[b]
                /\ \A d \in decodes' \ decodes : d.socket # b]_vars

\* C17 happens: an invocation was delivered that one subscribed bridge
\* accepted (it recorded the context) and a subscribed bridge of another
\* namespace did not: it has no context, no decode and no dispatch.
C17_Witness ==
  \E b, o \in subscribed :
    /\ sockets[b].namespace # sockets[o].namespace
    /\ sockets[o].executionContextId # None
    /\ sockets[b].executionContextId = None
    /\ \A d \in decodes : d.socket # b
    /\ \A x \in Dispatched : x.socket # b

\* C18: when close() / disconnect() on a bridge returns, the bridge has no
\* registered listeners, pending acknowledgement listeners included.
C18_CloseClearsListeners ==
  [][\A b \in SocketIds :
       SocketClose(b) \/ SocketDisconnect(b) =>
         sockets'[b].listeners = <<>>]_vars

\* The bridges attachCDPClient calls have made for node n.
BridgesOf(n) == {calls[c].socket : c \in {d \in CallIds : calls[d].server = n}}
                  \ {None}

\* C19: of the bridges made for one registry node at most one is active
\* (subscribed to the client and connected), in every reachable state.
C19_OneActiveBridge ==
  \A n \in ServerIds :
    Cardinality({b \in BridgesOf(n) :
                   b \in subscribed /\ sockets[b].cdpClient}) <= 1

\* C20: an emit returns with its encode pending and no Runtime.evaluate
\* sent for it; the emit's id is fresh, its one encode job ends in the one
\* step that can send its evaluation, so at most one Runtime.evaluate is
\* ever sent for it; and when the encode completes on a bridge that is
\* connected, exactly one is sent (none on a bridge that is not).
C20_EmitEvaluatesOnce ==
  /\ [](/\ \A j \in encodes : \A e \in evals :
             j.callbackEvent # e.callbackEvent
        /\ \A x \in encodes : \A y \in encodes :
             x.callbackEvent = y.callbackEvent => x = y
        /\ \A x \in evals : \A y \in evals :
             x.callbackEvent = y.callbackEvent => x = y)
  /\ [][/\ \A j \in encodes' \ encodes :
             /\ counters'.uuid = counters.uuid + 1
             /\ j.callbackEvent = j.event \o "-" \o ToString(counters'.uuid)
             /\ encodes' = encodes \cup {j}
             /\ evals' = evals
        /\ \A e \in evals' \ evals :
             \E j \in encodes \ encodes' :
               /\ j.callbackEvent = e.callbackEvent
               /\ j.socket = e.socket
               /\ EncodeDone(j)
        /\ \A j \in encodes :
             EncodeDone(j) =>
               /\ j \notin encodes'
               /\ IF sockets[j.socket].cdpClient
                  THEN Cardinality(evals' \ evals) = 1
                  ELSE evals' = evals]_vars

\* C20 happens: the evaluation of an emit was sent on a connected bridge
\* after its encode completed, and is the only job left of that emit.
C20_Witness ==
  \E e \in evals :
    /\ sockets[e.socket].cdpClient
    /\ \A j \in encodes : j.callbackEvent # e.callbackEvent
    /\ \A x \in evals : x.callbackEvent = e.callbackEvent => x = e

\* C21: no event is dispatched to a listener of a bridge after the bridge's
\* close() has run, also when the invocation was accepted before the close
\* and its decode completes after it.
C21_NoDispatchAfterClose ==
  \A x \in Dispatched : x.fired # {} => x.connected

\* C22: once close() has reached a registry node and no attachCDPClient call
\* on the node was made after it, the node holds no connected bridge and no
\* bridge made for the node is subscribed to the client, also when the
\* close ran while an attachCDPClient call on the node was awaiting the
\* client.
C22_CloseEndsAttach ==
  \A n \in ServerIds :
    LET made == {c \in CallIds : calls[c].server = n}
    IN made # {} /\ (\A c \in made : n \in calls[c].closed)
         => /\ servers[n].cdpSocket # None
                 => ~sockets[servers[n].cdpSocket].cdpClient
            /\ \A b \in BridgesOf(n) : b \notin subscribed

\* C23: a closed bridge sends no Runtime.evaluate and gets no listener that
\* can never be removed: an emit called after close() sends nothing and
\* registers no listener, and an encode that completes after close() sends
\* nothing and leaves no acknowledgement listener of its emit behind.
C23_NoEvaluateNoLeakAfterClose ==
  [][/\ \A e \in evals' \ evals : ~sockets[e.socket].closed
     /\ \A b \in SocketIds, event \in EmitEvents, args \in UserArgs :
          EmitCall(b, event, args) /\ sockets[b].closed =>
            /\ evals' = evals
            /\ sockets'[b].listeners = sockets[b].listeners
     /\ \A job \in encodes :
          EncodeDone(job) /\ sockets[job.socket].closed =>
            /\ evals' = evals
            /\ Listening(job.socket, job.callbackEvent)' = {}]_vars
====
